---- MODULE Spec2Model ----
(***************************************************************************)
(* Block ingestion and reconciliation engine of neotracker                 *)
(* (BlockUpdater.save / BlockUpdater.revert), as a state machine.          *)
(*                                                                         *)
(* One behaviour is one run of the scraper: a caller holds a Context and   *)
(* calls save(context, block) or revert(context, blockModel), one call at  *)
(* a time.  Every await of the two methods is one step, so the states in   *)
(* the middle of a call are states of the model.                           *)
(***************************************************************************)
EXTENDS Integers, Sequences, FiniteSets, TLC

\* ---------------------------------------------------------------- bounds
\* Highest block index of the modelled chains.
MaxIndex == 2
\* Number of competing blocks a chain can continue with at every index.
NumForks == 2
\* Number of operations (storage, sub-updater, client) that fail in one run.
MaxFaults == 1

\* ------------------------------------------------------- decimal strings
\* toFixed(8): fees are stored as decimal strings with 8 fractional digits.
Fixed8 == 100000000

\* A decimal string "w.ffffffff" is the pair <<w, f>>, 0 <= f < Fixed8.
\* new BigNumber(s): the value of the string, in units of 10^-8.
BigNumber(s) == s[1] * Fixed8 + s[2]

\* x.toFixed(8) of a value x given in units of 10^-8.
toFixed8(x) == << x \div Fixed8, x % Fixed8 >>

ZERO == BigNumber(<< 0, 0 >>)

\* ------------------------------------------------------------ the chains
Indices == 0 .. MaxIndex
Forks == 1 .. NumForks

\* A block is named by the path of fork choices that leads to it from the
\* genesis block: its hash commits to its own content and to its parent.
Paths == UNION { [1 .. n -> Forks] : n \in 1 .. (MaxIndex + 1) }

RECURSIVE HashOf(_)
HashOf(p) ==
  IF Len(p) = 0 THEN 0
  ELSE p[Len(p)] + (NumForks + 1) * HashOf(SubSeq(p, 1, Len(p) - 1))

\* The transactions of a block: each carries its declared system fee as a
\* decimal string.  Competing blocks at one index declare different fees.
TransactionsOf(i, v) ==
  IF v = 1
    THEN << [systemFee |-> << i + 1, 0 >>] >>
    ELSE << [systemFee |-> << 0, 50000000 >>],
            [systemFee |-> << i + v - 1, 50000000 >>] >>

BlockOf(p) ==
  [ index |-> Len(p) - 1,
    hash |-> HashOf(p),
    previousBlockHash |-> HashOf(SubSeq(p, 1, Len(p) - 1)),
    transactions |-> TransactionsOf(Len(p) - 1, p[Len(p)]) ]

Blocks == { BlockOf(p) : p \in Paths }

\* client.getBlock(height): the canonical chain takes fork 1 at every index.
getBlock(height) == BlockOf([k \in 1 .. (height + 1) |-> 1])

\* ------------------------------------------------------------ the tables
\* undefined, for a BlockModel that was not found and for a NULL column.
Undefined ==
  [ id |-> -1, hash |-> -1, previous_block_id |-> -1,
    previous_block_hash |-> -1, transaction_count |-> -1,
    system_fee |-> << >>, aggregated_system_fee |-> << >> ]

\* No entry of the system-fee ledger at an index.
NoEntry == << >>

VARIABLES
  db,              \* the block table: a set of rows, at most one per id
  ledger,          \* context.systemFee: index -> aggregated fee string
  processedIndex,  \* the processed-index cursor
  transactions,    \* block indices ingested by the transactions updater
  addresses,       \* block indices whose validator address is upserted
  prevPointers,    \* row ids whose next-block pointer is set
  context,         \* the caller's Context
  pc,              \* position of the call in flight, "idle" between calls
  cur,             \* the Context of the save / revert invocation in flight
  block,           \* the block argument of the save invocation in flight
  prevBlockModel,  \* save's and revert's local prevBlockModel
  blockModel,      \* save's local blockModel; revert's blockModel argument
  pending,         \* operations of the running Promise.all not yet settled
  error,           \* an operation of the call has rejected
  fetched,         \* the client.getBlock of the fork path: none, pending, resolved, rejected
  refetched,       \* the insert hit a uniqueness violation and re-read the row
  after,           \* what follows the revert in flight
  reverts,         \* reverts completed by the call in flight
  entryHeights,    \* context heights of the save invocations of the call
  result,          \* how the last call ended
  faults,          \* operations that have failed so far
  scenario,        \* the calls under observation, and the state they started from
  extraction       \* the last extraction: its input, and what it returned

stores == << db, ledger, processedIndex, transactions, addresses, prevPointers >>
locals == << cur, block, prevBlockModel, blockModel, pending, error, fetched,
             refetched, after, reverts, entryHeights >>
vars == << db, ledger, processedIndex, transactions, addresses, prevPointers,
           context, pc, cur, block, prevBlockModel, blockModel, pending, error,
           fetched, refetched, after, reverts, entryHeights, result, faults,
           scenario, extraction >>

\* ------------------------------------------------ helpers (db/utils)
\* BlockModel.query(db).where('id', id).first()
findById(table, id) ==
  IF \E r \in table : r.id = id
    THEN CHOOSE r \in table : r.id = id
    ELSE Undefined

getCurrentHeight(ctx) == ctx.currentHeight

\* The committed row that precedes blockIndex.
getPreviousBlockModel(table, blockIndex) == findById(table, blockIndex - 1)

\* ------------------------------------------------ BlockUpdater.save: values
\* block.index === height + 1
isNext(b, height) == b.index = height + 1

\* prevBlockModel === undefined || block.previousBlockHash === prevBlockModel.hash
isConsistent(b, pbm) == pbm = Undefined \/ b.previousBlockHash = pbm.hash

\* block.transactions.reduce((sysFee, tx) => sysFee.plus(new BigNumber(tx.systemFee)), ZERO)
RECURSIVE reduceSystemFee(_, _)
reduceSystemFee(txs, sysFee) ==
  IF txs = << >> THEN sysFee
  ELSE reduceSystemFee(Tail(txs), sysFee + BigNumber(Head(txs).systemFee))

systemFee(b) == reduceSystemFee(b.transactions, ZERO)

\* The aggregate started afresh at every block.
aggregatedSystemFee_withoutPrevious(pbm, sysFee) == sysFee

aggregatedSystemFee(pbm, sysFee) ==
  IF pbm = Undefined THEN sysFee
  ELSE BigNumber(pbm.aggregated_system_fee) + sysFee

\* The row handed to BlockModel.insertAndReturn.
newBlockModel(b, pbm) ==
  [ id |-> b.index,
    hash |-> b.hash,
    previous_block_id |-> IF pbm = Undefined THEN Undefined.previous_block_id ELSE pbm.id,
    previous_block_hash |-> IF pbm = Undefined THEN Undefined.previous_block_hash ELSE pbm.hash,
    transaction_count |-> Len(b.transactions),
    system_fee |-> toFixed8(systemFee(b)),
    aggregated_system_fee |-> toFixed8(aggregatedSystemFee(pbm, systemFee(b))) ]

\* The unique constraint on the primary key of the block table.
isUniqueError(table, row) == \E r \in table : r.id = row.id

\* The catch handler returning the row it tried to insert.
insertAndReturn_withoutRefetch(table, row) == row

\* insertAndReturn(...).catch(...): the row inserted, or on a uniqueness
\* violation the row read back by id.
insertAndReturn(table, row) ==
  IF isUniqueError(table, row) THEN findById(table, row.id) ELSE row

\* The table after insertAndReturn.
inserted(table, row) ==
  IF isUniqueError(table, row) THEN table ELSE table \cup {row}

\* { index: block.index, value: aggregatedSystemFee.toFixed(8) }
ledgerValue(b, pbm) == toFixed8(aggregatedSystemFee(pbm, systemFee(b)))

\* { ...innerNextContext, prevBlock: blockModel, currentHeight: blockModel.id }
savedContext(ctx, bm) ==
  [ctx EXCEPT !.prevBlock = bm, !.currentHeight = bm.id]

\* The hash comparison left out: every block at the tip's index replaces it.
isReplaced_always(b, bm) == TRUE

\* block.hash !== blockModel.hash
isReplaced(b, bm) == b.hash # bm.hash

\* ---------------------------------------------- BlockUpdater.revert: values
\* getPreviousBlockModel(context, monitor, blockModel.id - 1)
prevPrevBlockModel(table, bm) == getPreviousBlockModel(table, bm.id - 1)

\* revert handing on the height it was given.
revertedContext_keepsHeight(ctx, ppbm) == [ctx EXCEPT !.prevBlock = ppbm]

\* { ...context, prevBlock: prevPrevBlockModel, currentHeight: ... }
revertedContext(ctx, ppbm) ==
  [ctx EXCEPT !.prevBlock = ppbm,
              !.currentHeight = IF ppbm = Undefined THEN -1 ELSE ppbm.id]

\* ------------------------------------------------------------- sub-updaters
SaveFanOut == {"insert", "transactions", "address", "systemFee", "prevBlock"}
RevertFanOut == {"address", "transactions", "systemFee", "prevBlock"}

\* processedIndex.save(context, monitor, index)
processedSave(index) == index

\* processedIndex.revert(context, monitor, index)
processedRevert(index) == index - 1

\* ------------------------------------ asset and contract extraction: input
\* Transactions of one batch.
MaxBatch == 2
\* Contracts an invocation creates.
MaxContracts == 1
\* Method names a contract script lacks.
MaxMissing == 1

\* The method names of the token standard, as UTF-8 bytes:
\* totalSupply, name, symbol, decimals, balanceOf, transfer.
AttributeNames ==
  << << 116, 111, 116, 97, 108, 83, 117, 112, 112, 108, 121 >>,
     << 110, 97, 109, 101 >>,
     << 115, 121, 109, 98, 111, 108 >>,
     << 100, 101, 99, 105, 109, 97, 108, 115 >>,
     << 98, 97, 108, 97, 110, 99, 101, 79, 102 >>,
     << 116, 114, 97, 110, 115, 102, 101, 114 >> >>

\* Buffer.toString('hex'): two hex digits a byte, the high one first.
RECURSIVE toHex(_)
toHex(bytes) ==
  IF bytes = << >> THEN << >>
  ELSE << Head(bytes) \div 16, Head(bytes) % 16 >> \o toHex(Tail(bytes))

\* A script pushes each method name it dispatches on: the length, the bytes.
pushBytes(bytes) == << Len(bytes) >> \o bytes

RECURSIVE ScriptBytes(_, _)
ScriptBytes(names, i) ==
  IF i > Len(AttributeNames) THEN << >>
  ELSE (IF i \in names THEN pushBytes(AttributeNames[i]) ELSE << >>)
       \o ScriptBytes(names, i + 1)

\* contract.script, a hex string, of a contract that knows the given names.
ScriptOf(names) == toHex(ScriptBytes(names, 1))

NameSets ==
  { DOMAIN AttributeNames \ lacking :
      lacking \in { s \in SUBSET DOMAIN AttributeNames :
                      Cardinality(s) <= MaxMissing } }

Scripts == { ScriptOf(names) : names \in NameSets }

ContractHashes == {"c1", "c2", "c3"}

Contracts == [ hash : ContractHashes, script : Scripts ]

\* context.blacklistNEP5Hashes
BlacklistNEP5Hashes == {"c3"}

\* No asset, no row, no handle: undefined.
NoAsset == [ type |-> "undefined" ]
NoRow == [ id |-> "undefined" ]
NoHandle == [ hash |-> "undefined" ]

\* The asset a transaction registers.
RegisteredAsset ==
  [ type |-> "Token", name |-> "coin", amount |-> 100, precision |-> 8,
    owner |-> "owner", admin |-> "admin" ]

\* The transactions a block can hold at position k of a batch.
TransactionsAt(k) ==
  LET data == [ txid : {IF k = 1 THEN "t1" ELSE IF k = 2 THEN "t2" ELSE "t3"},
                globalIndex : {k} ]
      created == UNION { [1 .. n -> Contracts] : n \in 0 .. MaxContracts }
  IN    { [ type |-> "RegisterTransaction", txid |-> d.txid,
            globalIndex |-> d.globalIndex, asset |-> RegisteredAsset ]
          : d \in data }
   \cup { [ type |-> "InvocationTransaction", txid |-> d[1].txid,
            globalIndex |-> d[1].globalIndex,
            invocationData |-> [ asset |-> d[2], contracts |-> d[3] ] ]
          : d \in data \X {NoAsset, RegisteredAsset} \X created }
   \cup { [ type |-> "PublishTransaction", txid |-> d[1].txid,
            globalIndex |-> d[1].globalIndex, contract |-> d[2] ]
          : d \in data \X Contracts }
   \cup { [ type |-> "ContractTransaction", txid |-> d.txid,
            globalIndex |-> d.globalIndex ]
          : d \in data }

RECURSIVE BatchesOf(_)
BatchesOf(n) ==
  IF n = 0 THEN { << >> }
  ELSE { Append(b, tx) : b \in BatchesOf(n - 1), tx \in TransactionsAt(n) }

Batches == UNION { BatchesOf(n) : n \in 0 .. MaxBatch }

\* The queries extraction sends to the node for a token contract.
Queries == {"abi", "name", "symbol", "decimals", "totalSupply"}

\* ----------------------------------- asset and contract extraction: values
\* BigNumber.toString() / number.toString() of a non-negative integer: its
\* decimal digits.
RECURSIVE toString(_)
toString(n) ==
  IF n < 10 THEN << n >> ELSE Append(toString(n \div 10), n % 10)

\* JSON.stringify of a string.
stringify(s) == "\"" \o s \o "\""

add0x(hash) == "0x" \o hash

\* .filter(utils.notNull)
notNull(rows, none) == SelectSeq(rows, LAMBDA r : r # none)

\* _.flatMap(lists)
RECURSIVE flatMap(_)
flatMap(lists) ==
  IF lists = << >> THEN << >> ELSE Head(lists) \o flatMap(Tail(lists))

\* getAsset(transaction, blockTime)
getAsset(transaction, blockTime) ==
  LET asset ==
        IF transaction.type = "RegisterTransaction" THEN transaction.asset
        ELSE IF transaction.type = "InvocationTransaction"
          THEN transaction.invocationData.asset
        ELSE NoAsset
  IN IF asset # NoAsset
       THEN [ id |-> transaction.txid,
              transaction_id |-> toString(transaction.globalIndex),
              transaction_hash |-> transaction.txid,
              type |-> asset.type,
              name_raw |-> stringify(asset.name),
              symbol |-> stringify(asset.name),
              amount |-> toString(asset.amount),
              precision |-> asset.precision,
              owner |-> asset.owner,
              admin_address_id |-> asset.admin,
              block_time |-> blockTime ]
       ELSE NoRow

\* The hex encodings of five of the six method names.
NEP5_ATTRIBUTES_withoutTransfer ==
  [ i \in 1 .. (Len(AttributeNames) - 1) |-> toHex(AttributeNames[i]) ]

NEP5_ATTRIBUTES ==
  [ i \in DOMAIN AttributeNames |-> toHex(AttributeNames[i]) ]

\* String.prototype.includes
includes(s, sub) ==
  \E i \in 0 .. (Len(s) - Len(sub)) : SubSeq(s, i + 1, i + Len(sub)) = sub

\* NEP5_ATTRIBUTES.every((attribute) => script.includes(attribute))
everyAttribute(script) ==
  \A i \in DOMAIN NEP5_ATTRIBUTES : includes(script, NEP5_ATTRIBUTES[i])

\* The scripts of the model that pass the test, computed once.
NEP5Scripts == { script \in Scripts : everyAttribute(script) }

checkIsNEP5(ctx, contract) ==
  IF contract.hash \in ctx.blacklistNEP5Hashes THEN FALSE
  ELSE contract.script \in NEP5Scripts

\* What the node answers to the queries that do not fail.
Answers == [ name |-> "token", symbol |-> "TKN", decimals |-> 8,
             totalSupply |-> 1000 ]

\* nep5Contract.totalSupply(monitor), rejections not caught.
totalSupply_withoutCatch(failing) ==
  IF "totalSupply" \in failing THEN [ ok |-> FALSE ]
  ELSE [ ok |-> TRUE, value |-> Answers.totalSupply ]

\* nep5Contract.totalSupply(monitor).catch(() => new BigNumber(0))
totalSupply(failing) ==
  IF "totalSupply" \in failing THEN [ ok |-> TRUE, value |-> 0 ]
  ELSE [ ok |-> TRUE, value |-> Answers.totalSupply ]

\* context.client.smartContract({ hash, abi }): a new handle at every call,
\* told apart by the transaction it was made for.
smartContract(hash, transaction) ==
  [ hash |-> hash, abi |-> "NEP5", madeFor |-> transaction.txid ]

\* getContractAndAsset({ context, transaction, contract, blockIndex, blockTime }),
\* with the set of queries that the node fails.
getContractAndAsset(ctx, transaction, contract, blockIndex, blockTime, failing) ==
  LET isNEP5 == checkIsNEP5(ctx, contract)
      contractModel ==
        [ id |-> contract.hash,
          script |-> contract.script,
          transaction_id |-> toString(transaction.globalIndex),
          transaction_hash |-> transaction.txid,
          block_time |-> blockTime,
          block_id |-> blockIndex,
          type |-> IF isNEP5 THEN "NEP5" ELSE "Unknown" ]
      nep5Contract == smartContract(add0x(contractModel.id), transaction)
      supply == totalSupply(failing)
  IN IF ~ isNEP5
       THEN [ ok |-> TRUE, asset |-> NoRow, contract |-> contractModel,
              nep5Contract |-> NoHandle ]
     ELSE IF \/ failing \cap {"abi", "name", "symbol", "decimals"} # {}
             \/ ~ supply.ok
       THEN [ ok |-> FALSE ]
     ELSE [ ok |-> TRUE,
            asset |-> [ id |-> contractModel.id,
                        transaction_id |-> toString(transaction.globalIndex),
                        transaction_hash |-> transaction.txid,
                        type |-> "NEP5",
                        name_raw |-> stringify(Answers.name),
                        symbol |-> Answers.symbol,
                        amount |-> toString(supply.value),
                        precision |-> Answers.decimals,
                        owner |-> "null",
                        admin_address_id |-> "null",
                        block_time |-> blockTime ],
            contract |-> contractModel,
            nep5Contract |-> nep5Contract ]

\* getContracts({ context, transaction, blockIndex, blockTime })
getContracts(ctx, transaction, blockIndex, blockTime, failing) ==
  LET contracts ==
        IF transaction.type = "InvocationTransaction"
          THEN transaction.invocationData.contracts
        ELSE IF transaction.type = "PublishTransaction"
          THEN << transaction.contract >>
        ELSE << >>
      results ==
        [ i \in DOMAIN contracts |->
            getContractAndAsset(ctx, transaction, contracts[i], blockIndex,
                                blockTime, failing) ]
  IN IF \E i \in DOMAIN results : ~ results[i].ok
       THEN [ ok |-> FALSE ]
     ELSE [ ok |-> TRUE,
            assets |->
              notNull([ i \in DOMAIN results |-> results[i].asset ], NoRow),
            contracts |-> [ i \in DOMAIN results |-> results[i].contract ],
            nep5Contracts |->
              notNull([ i \in DOMAIN results |->
                          IF results[i].nep5Contract = NoHandle THEN NoHandle
                          ELSE [ contractID |-> results[i].contract.id,
                                 nep5Contract |-> results[i].nep5Contract ] ],
                      NoHandle) ]

\* entries.reduce((acc, { contractID, nep5Contract }) =>
\*   ({ ...acc, [contractID]: nep5Contract }), acc)
RECURSIVE reduceNep5Contracts(_, _)
reduceNep5Contracts(entries, acc) ==
  IF entries = << >> THEN acc
  ELSE reduceNep5Contracts(
         Tail(entries),
         [ acc EXCEPT ![Head(entries).contractID] = Head(entries).nep5Contract ])

\* A handle cache without an entry.
NoNep5Contracts == [ id \in ContractHashes |-> NoHandle ]

\* The reduce started from an empty object instead of the context's cache.
nextNep5Contracts_fromEmpty(ctx, entries) ==
  reduceNep5Contracts(entries, NoNep5Contracts)

\* The nep5Contracts of the context extraction returns.
nextNep5Contracts(ctx, entries) ==
  reduceNep5Contracts(entries, ctx.nep5Contracts)

\* The rows of the token contracts put before the registered assets.
assetsOf_tokensFirst(assets, results) ==
  flatMap([ i \in DOMAIN results |-> results[i].assets ]) \o assets

\* assets.concat(_.flatMap(results.map(({ assets }) => assets)))
assetsOf(assets, results) ==
  assets \o flatMap([ i \in DOMAIN results |-> results[i].assets ])

\* getAssetsAndContractsForClient({ context, transactions, blockIndex, blockTime })
getAssetsAndContractsForClient(ctx, txs, blockIndex, blockTime, failing) ==
  LET assets ==
        notNull([ i \in DOMAIN txs |-> getAsset(txs[i], blockTime) ], NoRow)
      results ==
        [ i \in DOMAIN txs |->
            getContracts(ctx, txs[i], blockIndex, blockTime, failing) ]
  IN IF \E i \in DOMAIN results : ~ results[i].ok
       THEN [ ok |-> FALSE ]
     ELSE [ ok |-> TRUE,
            assets |-> assetsOf(assets, results),
            contracts |->
              flatMap([ i \in DOMAIN results |-> results[i].contracts ]),
            context |->
              [ ctx EXCEPT !.nep5Contracts =
                  nextNep5Contracts(
                    ctx,
                    flatMap([ i \in DOMAIN results |->
                                results[i].nep5Contracts ])) ] ]

\* ----------------------------------------------------------------- Init
\* What the caller can observe of the projection, with the context it holds.
Observed ==
  [ db |-> db, ledger |-> ledger, processedIndex |-> processedIndex,
    transactions |-> transactions, addresses |-> addresses,
    prevPointers |-> prevPointers, context |-> context ]

\* No call is under observation.
NoScenario == [ phase |-> "free" ]

\* No extraction has returned since the caller last took a context.
NoExtraction == [ called |-> FALSE ]

EmptyContext ==
  [ currentHeight |-> -1, prevBlock |-> Undefined,
    nep5Contracts |-> NoNep5Contracts,
    blacklistNEP5Hashes |-> BlacklistNEP5Hashes ]

Init ==
  /\ db = {}
  /\ ledger = [i \in Indices |-> NoEntry]
  /\ processedIndex = -1
  /\ transactions = {}
  /\ addresses = {}
  /\ prevPointers = {}
  /\ context = EmptyContext
  /\ pc = "idle"
  /\ cur = EmptyContext
  /\ block = getBlock(0)
  /\ prevBlockModel = Undefined
  /\ blockModel = Undefined
  /\ pending = {}
  /\ error = FALSE
  /\ fetched = "none"
  /\ refetched = FALSE
  /\ after = "return"
  /\ reverts = 0
  /\ entryHeights = << >>
  /\ result = "none"
  /\ faults = 0
  /\ scenario = NoScenario
  /\ extraction = NoExtraction

\* The call in flight ends: its locals are dropped.
EndCall(ctx, res) ==
  /\ pc' = "idle"
  /\ context' = ctx
  /\ result' = res
  /\ cur' = ctx
  /\ block' = getBlock(0)
  /\ prevBlockModel' = Undefined
  /\ blockModel' = Undefined
  /\ pending' = {}
  /\ error' = FALSE
  /\ fetched' = "none"
  /\ refetched' = FALSE
  /\ after' = "return"
  /\ reverts' = 0
  /\ entryHeights' = << >>
  /\ UNCHANGED << scenario, extraction >>

\* The call resolves with context ctx.
Return(ctx) == EndCall(ctx, "ok")

\* The call rejects: the caller keeps the context it passed.
Throw == EndCall(context, "error")

\* ------------------------------------------------------------ save: steps
\* The caller calls save(context, monitor, b).
saveCall(b) ==
  /\ pc = "idle"
  /\ pc' = "save"
  /\ block' = b
  /\ cur' = context
  /\ result' = "running"
  /\ UNCHANGED << stores, context, prevBlockModel, blockModel, pending, error,
                  fetched, refetched, after, reverts, entryHeights, faults >>

\* Append: the block follows the committed tip; the five operations start.
SaveAppend ==
  /\ pc = "save"
  /\ isNext(block, getCurrentHeight(cur))
  /\ isConsistent(block, getPreviousBlockModel(db, block.index))
  /\ pc' = "fanout"
  /\ prevBlockModel' = getPreviousBlockModel(db, block.index)
  /\ pending' = SaveFanOut
  /\ entryHeights' = Append(entryHeights, getCurrentHeight(cur))
  /\ UNCHANGED << stores, context, cur, block, blockModel, error, fetched,
                  refetched, after, reverts, result, faults >>
  /\ UNCHANGED << scenario, extraction >>

\* Fork: the block does not link to the committed tip; client.getBlock(height)
\* and the revert of the tip start together.
SaveFork ==
  /\ pc = "save"
  /\ isNext(block, getCurrentHeight(cur))
  /\ ~ isConsistent(block, getPreviousBlockModel(db, block.index))
  /\ pc' = "subreverts"
  /\ blockModel' = getPreviousBlockModel(db, block.index)
  /\ prevBlockModel' =
       getPreviousBlockModel(db, getPreviousBlockModel(db, block.index).id)
  /\ pending' = RevertFanOut
  /\ fetched' = "pending"
  /\ after' = "fork"
  /\ entryHeights' = Append(entryHeights, getCurrentHeight(cur))
  /\ UNCHANGED << stores, context, cur, block, error, refetched, reverts,
                  result, faults >>
  /\ UNCHANGED << scenario, extraction >>

\* Same index as the tip, and findById(block.index) finds no row.
SaveNotFound ==
  /\ pc = "save"
  /\ ~ isNext(block, getCurrentHeight(cur))
  /\ block.index = getCurrentHeight(cur)
  /\ findById(db, block.index) = Undefined
  /\ Throw
  /\ UNCHANGED << stores, faults >>

\* Same index as the tip and another hash: revert the tip, then save again.
SaveReplace ==
  /\ pc = "save"
  /\ ~ isNext(block, getCurrentHeight(cur))
  /\ block.index = getCurrentHeight(cur)
  /\ findById(db, block.index) # Undefined
  /\ isReplaced(block, findById(db, block.index))
  /\ pc' = "subreverts"
  /\ blockModel' = findById(db, block.index)
  /\ prevBlockModel' = getPreviousBlockModel(db, block.index)
  /\ pending' = RevertFanOut
  /\ after' = "save"
  /\ entryHeights' = Append(entryHeights, getCurrentHeight(cur))
  /\ UNCHANGED << stores, context, cur, block, error, fetched, refetched,
                  reverts, result, faults >>
  /\ UNCHANGED << scenario, extraction >>

\* A block that is out of order rejected instead of ignored.
SaveNoop_throws ==
  /\ pc = "save"
  /\ ~ isNext(block, getCurrentHeight(cur))
  /\ \/ block.index # getCurrentHeight(cur)
     \/ /\ findById(db, block.index) # Undefined
        /\ ~ isReplaced(block, findById(db, block.index))
  /\ Throw
  /\ UNCHANGED << stores, faults >>

\* Same index and same hash as the tip, or any other index: return context.
SaveNoop ==
  /\ pc = "save"
  /\ ~ isNext(block, getCurrentHeight(cur))
  /\ \/ block.index # getCurrentHeight(cur)
     \/ /\ findById(db, block.index) # Undefined
        /\ ~ isReplaced(block, findById(db, block.index))
  /\ Return(cur)
  /\ UNCHANGED << stores, faults >>

\* One operation of the fan-out settles; the others are left running.
Settle(op) ==
  /\ op \in pending
  /\ pending' = pending \ {op}
  /\ UNCHANGED << context, pc, cur, block, prevBlockModel, fetched, after,
                  reverts, entryHeights, result >>
  /\ UNCHANGED << scenario, extraction >>

\* BlockModel.insertAndReturn(...).catch(...)
InsertBlock ==
  /\ pc = "fanout"
  /\ Settle("insert")
  /\ db' = inserted(db, newBlockModel(block, prevBlockModel))
  /\ blockModel' = insertAndReturn(db, newBlockModel(block, prevBlockModel))
  /\ refetched' = isUniqueError(db, newBlockModel(block, prevBlockModel))
  /\ UNCHANGED << ledger, processedIndex, transactions, addresses,
                  prevPointers, error, faults >>

\* this.updaters.transactions.save(context, span, { block })
SaveTransactions ==
  /\ pc = "fanout"
  /\ Settle("transactions")
  /\ transactions' = transactions \cup {block.index}
  /\ UNCHANGED << db, ledger, processedIndex, addresses, prevPointers,
                  blockModel, refetched, error, faults >>

\* this.updaters.address.save(context, span, { addresses: [...] })
SaveAddress ==
  /\ pc = "fanout"
  /\ Settle("address")
  /\ addresses' = addresses \cup {block.index}
  /\ UNCHANGED << db, ledger, processedIndex, transactions, prevPointers,
                  blockModel, refetched, error, faults >>

\* context.systemFee.save({ index, value }, span)
SaveSystemFee ==
  /\ pc = "fanout"
  /\ Settle("systemFee")
  /\ ledger' = [ledger EXCEPT ![block.index] = ledgerValue(block, prevBlockModel)]
  /\ UNCHANGED << db, processedIndex, transactions, addresses, prevPointers,
                  blockModel, refetched, error, faults >>

\* this.updaters.prevBlock.save(context, span, { block, prevBlockModel })
SavePrevBlock ==
  /\ pc = "fanout"
  /\ Settle("prevBlock")
  /\ prevPointers' = IF prevBlockModel = Undefined THEN prevPointers
                     ELSE prevPointers \cup {prevBlockModel.id}
  /\ UNCHANGED << db, ledger, processedIndex, transactions, addresses,
                  blockModel, refetched, error, faults >>

\* An operation of the running Promise.all rejects with an error that is not
\* a uniqueness violation; it wrote nothing.
Reject(op) ==
  /\ pc \in {"fanout", "subreverts"}
  /\ faults < MaxFaults
  /\ Settle(op)
  /\ error' = TRUE
  /\ faults' = faults + 1
  /\ UNCHANGED << stores, blockModel, refetched >>

\* Promise.all of the fan-out rejects: save throws.
SaveRejected ==
  /\ pc = "fanout"
  /\ pending = {}
  /\ error
  /\ Throw
  /\ UNCHANGED << stores, faults >>

\* processedIndex.save started without awaiting the Promise.all.
SaveJoined_withoutAwait ==
  /\ pc = "fanout"
  /\ ~ error
  /\ pc' = "processed"
  /\ UNCHANGED << stores, context, locals, result, faults >>
  /\ UNCHANGED << scenario, extraction >>

\* Promise.all of the fan-out resolves: processedIndex.save comes next.
SaveJoined ==
  /\ pc = "fanout"
  /\ pending = {}
  /\ ~ error
  /\ pc' = "processed"
  /\ UNCHANGED << stores, context, locals, result, faults >>
  /\ UNCHANGED << scenario, extraction >>

\* await this.updaters.processedIndex.save(innerNextContext, span, block.index)
SaveProcessed ==
  /\ pc = "processed"
  /\ processedIndex' = processedSave(block.index)
  /\ pc' = "saved"
  /\ UNCHANGED << db, ledger, transactions, addresses, prevPointers, context,
                  locals, result, faults >>
  /\ UNCHANGED << scenario, extraction >>

\* processedIndex.save rejects.
SaveProcessedRejected ==
  /\ pc = "processed"
  /\ faults < MaxFaults
  /\ faults' = faults + 1
  /\ Throw
  /\ UNCHANGED stores

\* return { ...innerNextContext, prevBlock: blockModel, currentHeight: blockModel.id }
SaveReturn ==
  /\ pc = "saved"
  /\ Return(savedContext(cur, blockModel))
  /\ UNCHANGED << stores, faults >>

\* ---------------------------------------------------------- revert: steps
\* The caller calls revert(context, monitor, context.prevBlock).
revertCall ==
  /\ pc = "idle"
  /\ context.prevBlock # Undefined
  /\ pc' = "subreverts"
  /\ cur' = context
  /\ blockModel' = context.prevBlock
  /\ prevBlockModel' = getPreviousBlockModel(db, context.prevBlock.id)
  /\ pending' = RevertFanOut
  /\ after' = "return"
  /\ result' = "running"
  /\ UNCHANGED << stores, context, block, error, fetched, refetched, reverts,
                  entryHeights, faults >>

\* this.updaters.address.revert(context, span, { addresses, blockIndex })
RevertAddress ==
  /\ pc = "subreverts"
  /\ Settle("address")
  /\ addresses' = addresses \ {blockModel.id}
  /\ UNCHANGED << db, ledger, processedIndex, transactions, prevPointers,
                  blockModel, refetched, error, faults >>

\* this.updaters.transactions.revert(context, span, { blockModel })
RevertTransactions ==
  /\ pc = "subreverts"
  /\ Settle("transactions")
  /\ transactions' = transactions \ {blockModel.id}
  /\ UNCHANGED << db, ledger, processedIndex, addresses, prevPointers,
                  blockModel, refetched, error, faults >>

\* context.systemFee.revert(blockModel.id, span)
RevertSystemFee ==
  /\ pc = "subreverts"
  /\ Settle("systemFee")
  /\ ledger' = [ledger EXCEPT ![blockModel.id] = NoEntry]
  /\ UNCHANGED << db, processedIndex, transactions, addresses, prevPointers,
                  blockModel, refetched, error, faults >>

\* this.updaters.prevBlock.revert(context, span, prevBlockModel)
RevertPrevBlock ==
  /\ pc = "subreverts"
  /\ Settle("prevBlock")
  /\ prevPointers' = IF prevBlockModel = Undefined THEN prevPointers
                     ELSE prevPointers \ {prevBlockModel.id}
  /\ UNCHANGED << db, ledger, processedIndex, transactions, addresses,
                  blockModel, refetched, error, faults >>

\* Promise.all of the sub-reverts rejects: revert throws, and so does a save
\* that called it.
RevertRejected ==
  /\ pc = "subreverts"
  /\ pending = {}
  /\ error
  /\ Throw
  /\ UNCHANGED << stores, faults >>

\* The row deleted without awaiting the Promise.all of the sub-reverts.
RevertJoined_withoutAwait ==
  /\ pc = "subreverts"
  /\ ~ error
  /\ pc' = "delete"
  /\ UNCHANGED << stores, context, locals, result, faults >>
  /\ UNCHANGED << scenario, extraction >>

\* Promise.all of the sub-reverts resolves: the row is deleted next.
RevertJoined ==
  /\ pc = "subreverts"
  /\ pending = {}
  /\ ~ error
  /\ pc' = "delete"
  /\ UNCHANGED << stores, context, locals, result, faults >>
  /\ UNCHANGED << scenario, extraction >>

\* await blockModel.$query(context.db).delete()
RevertDelete ==
  /\ pc = "delete"
  /\ db' = { r \in db : r.id # blockModel.id }
  /\ pc' = "unprocess"
  /\ UNCHANGED << ledger, processedIndex, transactions, addresses,
                  prevPointers, context, locals, result, faults >>
  /\ UNCHANGED << scenario, extraction >>

\* await this.updaters.processedIndex.revert(context, span, blockModel.id)
RevertProcessed ==
  /\ pc = "unprocess"
  /\ processedIndex' = processedRevert(blockModel.id)
  /\ pc' = "reverted"
  /\ UNCHANGED << db, ledger, transactions, addresses, prevPointers, context,
                  locals, result, faults >>
  /\ UNCHANGED << scenario, extraction >>

\* The delete, or processedIndex.revert, rejects.
RevertStepRejected ==
  /\ pc \in {"delete", "unprocess"}
  /\ faults < MaxFaults
  /\ faults' = faults + 1
  /\ Throw
  /\ UNCHANGED stores

\* client.getBlock(height) of the fork path resolves while the revert runs.
GetBlock ==
  /\ fetched = "pending"
  /\ fetched' = "resolved"
  /\ UNCHANGED << stores, context, pc, cur, block, prevBlockModel, blockModel,
                  pending, error, refetched, after, reverts, entryHeights,
                  result, faults >>
  /\ UNCHANGED << scenario, extraction >>

\* client.getBlock(height) rejects; the revert it runs beside is not stopped.
GetBlockRejected ==
  /\ fetched = "pending"
  /\ faults < MaxFaults
  /\ faults' = faults + 1
  /\ fetched' = "rejected"
  /\ UNCHANGED << stores, context, pc, cur, block, prevBlockModel, blockModel,
                  pending, error, refetched, after, reverts, entryHeights,
                  result >>
  /\ UNCHANGED << scenario, extraction >>

\* A revert called by the caller returns its context.
RevertReturn ==
  /\ pc = "reverted"
  /\ after = "return"
  /\ Return(revertedContext(cur, prevPrevBlockModel(db, blockModel)))
  /\ UNCHANGED << stores, faults >>

\* The save invocation that follows a revert inside save.
Resave(b) ==
  /\ pc' = "save"
  /\ cur' = revertedContext(cur, prevPrevBlockModel(db, blockModel))
  /\ block' = b
  /\ reverts' = reverts + 1
  /\ prevBlockModel' = Undefined
  /\ blockModel' = Undefined
  /\ fetched' = "none"
  /\ after' = "return"
  /\ UNCHANGED << stores, context, pending, error, refetched, entryHeights,
                  result, faults >>
  /\ UNCHANGED << scenario, extraction >>

\* return this.save(nextContext, span, block) of the same-index path.
RevertThenSave ==
  /\ pc = "reverted"
  /\ after = "save"
  /\ Resave(block)

\* return this.save(nextContext, span, prevBlock) of the fork path.
RevertThenSaveFetched ==
  /\ pc = "reverted"
  /\ after = "fork"
  /\ fetched = "resolved"
  /\ Resave(getBlock(getCurrentHeight(cur)))

\* The Promise.all of the fork path rejects because getBlock did.
ForkRejected ==
  /\ pc = "reverted"
  /\ after = "fork"
  /\ fetched = "rejected"
  /\ Throw
  /\ UNCHANGED << stores, faults >>

\* ----------------------------------------------------------- specification
SaveCall(b) == saveCall(b) /\ UNCHANGED << scenario, extraction >>

RevertCall == revertCall /\ UNCHANGED << scenario, extraction >>

\* The steps of a call whose operations all succeed.
Step ==
  \/ SaveAppend \/ SaveFork \/ SaveReplace \/ SaveNoop
  \/ InsertBlock \/ SaveTransactions \/ SaveAddress \/ SaveSystemFee
  \/ SavePrevBlock
  \/ SaveJoined \/ SaveProcessed \/ SaveReturn
  \/ RevertAddress \/ RevertTransactions \/ RevertSystemFee \/ RevertPrevBlock
  \/ RevertJoined \/ RevertDelete \/ RevertProcessed
  \/ GetBlock \/ RevertReturn \/ RevertThenSave \/ RevertThenSaveFetched

\* An operation rejects, and the steps that only a rejection leads to.
Failure ==
  \/ \E op \in SaveFanOut : Reject(op)
  \/ SaveProcessedRejected
  \/ RevertStepRejected
  \/ GetBlockRejected
  \/ SaveRejected \/ RevertRejected \/ ForkRejected \/ SaveNotFound

Call ==
  \/ \E b \in Blocks : SaveCall(b)
  \/ RevertCall

Next == Call \/ Step \/ Failure

\* Every run of the engine: any calls, any block, operations that may fail.
Spec == Init /\ [][Next]_vars

\* The runs in which no operation fails.
NextOk == Call \/ Step

SpecOk == Init /\ [][NextOk]_vars

\* ------------------------------------------------- two calls under observation
\* The block a committed row was made from.
BlockOfRow(row) == CHOOSE b \in Blocks : b.hash = row.hash

Free == scenario.phase = "free"

\* save(context, b) is observed from the state it is called in.
FirstSave(b) ==
  /\ Free
  /\ saveCall(b)
  /\ scenario' = [ phase |-> "first", op |-> "save", block |-> b,
                   before |-> Observed ]
  /\ UNCHANGED extraction

\* revert(context, context.prevBlock) is observed likewise.
FirstRevert ==
  /\ Free
  /\ revertCall
  /\ scenario' = [ phase |-> "first", op |-> "revert",
                   block |-> BlockOfRow(context.prevBlock),
                   before |-> Observed ]
  /\ UNCHANGED extraction

\* revert of the row the observed save returned in its context.
SecondRevert ==
  /\ scenario.phase = "first"
  /\ scenario.op = "save"
  /\ result = "ok"
  /\ revertCall
  /\ scenario' = [scenario EXCEPT !.phase = "second"]
  /\ UNCHANGED extraction

\* save of the block whose row the observed revert removed.
SecondSave ==
  /\ scenario.phase = "first"
  /\ scenario.op = "revert"
  /\ result = "ok"
  /\ saveCall(scenario.block)
  /\ scenario' = [scenario EXCEPT !.phase = "second"]
  /\ UNCHANGED extraction

FreeCall ==
  \/ \E b \in Blocks : Free /\ SaveCall(b)
  \/ Free /\ RevertCall

ObservedCall ==
  \/ \E b \in Blocks : FirstSave(b)
  \/ FirstRevert
  \/ SecondRevert
  \/ SecondSave

\* An operation of a call under observation rejects.
ObservedFailure == ~ Free /\ Failure

NextObserved == FreeCall \/ ObservedCall \/ Step \/ ObservedFailure

\* Runs that end with one call, or two calls in a row, under observation;
\* operations may fail in the observed calls only.
SpecObserved == Init /\ [][NextObserved]_vars

\* ------------------------------------------------------ sequential appends
\* The driving loop feeds the block that follows the committed tip.
AppendCall(b) ==
  /\ b.index = context.currentHeight + 1
  /\ b.index = 0 \/ b.previousBlockHash = context.prevBlock.hash
  /\ SaveCall(b)

NextAppend ==
  \/ \E b \in Blocks : AppendCall(b)
  \/ SaveAppend
  \/ InsertBlock \/ SaveTransactions \/ SaveAddress \/ SaveSystemFee
  \/ SavePrevBlock
  \/ SaveJoined \/ SaveProcessed \/ SaveReturn

\* From the empty projection, blocks 0, 1, 2, ... saved one at a time.
SpecAppend == Init /\ [][NextAppend]_vars

\* ------------------------------------------------------------- extraction
\* Queries of one extraction that the node fails.
MaxFailing == 1

Failings == { f \in SUBSET Queries : Cardinality(f) <= MaxFailing }

\* Between two calls of the engine the caller runs
\* getAssetsAndContractsForClient on the transactions of the block that
\* comes next.  The function reads the context and the answers of the node
\* and writes nothing, so the call is one step.
Extract(txs, failing) ==
  /\ pc = "idle"
  /\ ~ extraction.called
  /\ extraction' =
       [ called |-> TRUE,
         context |-> context,
         transactions |-> txs,
         failing |-> failing,
         result |->
           getAssetsAndContractsForClient(
             context, txs, context.currentHeight + 1,
             15 * (context.currentHeight + 1), failing) ]
  /\ UNCHANGED << stores, context, pc, locals, result, faults, scenario >>

\* The caller goes on with the context extraction returned.
Adopt ==
  /\ pc = "idle"
  /\ extraction.called
  /\ extraction.result.ok
  /\ context' = extraction.result.context
  /\ extraction' = NoExtraction
  /\ UNCHANGED << stores, pc, locals, result, faults, scenario >>

\* The extraction rejected: the caller keeps its context.
Rejected ==
  /\ pc = "idle"
  /\ extraction.called
  /\ ~ extraction.result.ok
  /\ extraction' = NoExtraction
  /\ UNCHANGED << stores, context, pc, locals, result, faults, scenario >>

\* Any batch, with any of the node's failures.
ExtractCall ==
  /\ ~ extraction.called
  /\ \E txs \in Batches, failing \in Failings : Extract(txs, failing)

NextExtract ==
  \/ ExtractCall
  \/ Adopt
  \/ Rejected

\* Extraction of one batch after the other, on the context of the one before.
SpecExtract == Init /\ [][NextExtract]_vars

\* Batches that publish contracts with the full script.
PublishBatches ==
  { b \in Batches :
      \A i \in DOMAIN b :
        /\ b[i].type = "PublishTransaction"
        /\ b[i].contract.script = ScriptOf(DOMAIN AttributeNames) }

PublishCall ==
  /\ ~ extraction.called
  /\ \E txs \in PublishBatches : Extract(txs, {})

\* The engine is called with the context of the last extraction.
EngineCall ==
  /\ ~ extraction.called
  /\ Call

NextCache == PublishCall \/ Adopt \/ EngineCall \/ Step

\* Extraction and the engine in one run: batches are extracted between the
\* calls of save and revert, whose operations succeed.
SpecCache == Init /\ [][NextCache]_vars

\* ------------------------------------------------------------------ claims
\* The state a row-by-row comparison with the canonical chain needs.
RowIds(table) == { r.id : r \in table }

\* table holds the rows 0 .. n, each linked to the row below it.
IsLocalChain(table, n) ==
  /\ n >= 0
  /\ RowIds(table) = 0 .. n
  /\ \A r \in table :
       r.id > 0 => r.previous_block_hash = findById(table, r.id - 1).hash

\* table agrees with the canonical chain below d and differs from d on.
DivergesAt(table, d) ==
  \A r \in table :
    IF r.id < d THEN r.hash = getBlock(r.id).hash
    ELSE r.hash # getBlock(r.id).hash

MatchesCanonical(table) == \A r \in table : r.hash = getBlock(r.id).hash

\* C1: fork resolution.  When one call save(context, Bn), made on a committed
\* local chain A0..An that differs from the canonical chain B at every index
\* d..n, has returned, the context height is n and every committed row
\* carries the canonical hash of its index.
C1_ForkResolved ==
  ( /\ pc = "idle"
    /\ scenario.phase = "first"
    /\ scenario.op = "save"
    /\ result = "ok"
    /\ IsLocalChain(scenario.before.db, scenario.before.context.currentHeight)
    /\ \E d \in Indices :
         /\ d <= scenario.before.context.currentHeight
         /\ DivergesAt(scenario.before.db, d)
    /\ scenario.block = getBlock(scenario.before.context.currentHeight) )
  => /\ context.currentHeight = scenario.before.context.currentHeight
     /\ RowIds(db) = 0 .. context.currentHeight
     /\ MatchesCanonical(db)

\* C2: revert inverts append.  After save(ctx, b) appended b (b.index is the
\* height of ctx plus one and b links to the committed tip, or nothing is
\* committed below it) and revert of the row it committed has returned, the
\* context is ctx again and the block rows, the fee ledger and the
\* processed-index cursor are what they were before the save.
C2_RevertInvertsAppend ==
  ( /\ pc = "idle"
    /\ scenario.phase = "second"
    /\ scenario.op = "save"
    /\ result = "ok"
    /\ scenario.block.index = scenario.before.context.currentHeight + 1
    /\ \/ findById(scenario.before.db, scenario.block.index - 1) = Undefined
       \/ scenario.block.previousBlockHash =
            findById(scenario.before.db, scenario.block.index - 1).hash )
  => /\ context.currentHeight = scenario.before.context.currentHeight
     /\ context.prevBlock = scenario.before.context.prevBlock
     /\ db = scenario.before.db
     /\ ledger = scenario.before.ledger
     /\ processedIndex = scenario.before.processedIndex

\* C3: the context a completed revert of the row at index n hands on has
\* height n - 1 and prevBlock the committed row at n - 1 when that row
\* exists, and height -1 and no prevBlock when it does not.
C3_RevertedHeight ==
  [][ (pc = "reverted" /\ result' # "error")
      => LET n == blockModel.id
             below == findById(db, n - 1)
             next == IF after = "return" THEN context' ELSE cur'
         IN /\ next.prevBlock = below
            /\ next.currentHeight = IF below = Undefined THEN -1 ELSE n - 1
    ]_vars

\* The system fee a block declares, in units of 10^-8: the sum over its
\* transactions.
RECURSIVE DeclaredFee(_, _)
DeclaredFee(b, k) ==
  IF k = 0 THEN 0
  ELSE b.transactions[k].systemFee[1] * Fixed8
       + b.transactions[k].systemFee[2] + DeclaredFee(b, k - 1)

\* The sum of the declared fees of the blocks committed at 0 .. k.
RECURSIVE ChainFee(_, _)
ChainFee(table, k) ==
  IF k < 0 THEN 0
  ELSE LET b == BlockOfRow(findById(table, k))
       IN DeclaredFee(b, Len(b.transactions)) + ChainFee(table, k - 1)

DecimalString(x) == << x \div Fixed8, x % Fixed8 >>

\* C4: sequential append.  While blocks 0..n are saved one at a time from
\* the empty projection, the aggregated system fee of the row at every index
\* k, and the ledger entry for k, is the sum of the declared fees of the
\* blocks 0..k; after each save the ledger has an entry for every row.
C4_AggregatedFee ==
  /\ \A r \in db :
       /\ r.aggregated_system_fee = DecimalString(ChainFee(db, r.id))
       /\ ledger[r.id] # NoEntry
            => ledger[r.id] = DecimalString(ChainFee(db, r.id))
  /\ pc = "idle" =>
       /\ RowIds(db) = 0 .. context.currentHeight
       /\ \A r \in db : ledger[r.id] # NoEntry

C4_Witness ==
  /\ pc = "idle"
  /\ context.currentHeight = MaxIndex
  /\ \E r \in db : r.id > 0 /\ r.transaction_count > 1
  /\ \A r \in db : ledger[r.id] = r.aggregated_system_fee

\* C5: no-op on a stale duplicate.  A save invocation whose block has the
\* index of the current height and the hash of the row committed there
\* returns the context it was given, and writes nothing: no row, no ledger
\* entry, no sub-updater state and no cursor changes, and no revert starts.
C5_DuplicateNoop ==
  [][ ( /\ pc = "save"
        /\ block.index = cur.currentHeight
        /\ findById(db, block.index) # Undefined
        /\ block.hash = findById(db, block.index).hash )
      => /\ pc' = "idle"
         /\ result' = "ok"
         /\ context' = cur
         /\ UNCHANGED stores
    ]_vars

C5_Witness ==
  /\ pc = "save"
  /\ block.index = cur.currentHeight
  /\ findById(db, block.index) # Undefined
  /\ block.hash = findById(db, block.index).hash
  /\ cur = context
  /\ block.index > 0

\* The writes of block i's append that the projection holds.
Applied(i) ==
  { w \in {"row", "ledger", "transactions", "address"} :
      \/ w = "row" /\ findById(db, i) # Undefined
      \/ w = "ledger" /\ ledger[i] # NoEntry
      \/ w = "transactions" /\ i \in transactions
      \/ w = "address" /\ i \in addresses }

\* C7: all-or-nothing.  When a save or a revert has rejected, the projection
\* is what it was when the call started: no write of the call remains.
C7_AllOrNothing ==
  ( /\ pc = "idle"
    /\ scenario.phase = "first"
    /\ result = "error" )
  => Observed = scenario.before

\* C8: idempotent insert-or-fetch.  An insert that meets a row with the
\* block's index does not reject: it yields that row and leaves the table as
\* it is; the save then runs to its end, with the other operations done and
\* the cursor at block.index, and returns the existing row as prevBlock and
\* block.index as height.  Once an operation of the fan-out has rejected,
\* the save ends by throwing.
C8_InsertOrFetch ==
  [][ /\ ( /\ pc = "fanout"
           /\ "insert" \in pending
           /\ "insert" \notin pending'
           /\ faults' = faults
           /\ \E r \in db : r.id = block.index )
        => /\ error' = error
           /\ db' = db
           /\ blockModel' = findById(db, block.index)
           /\ refetched'
      /\ (pc = "saved" /\ refetched)
        => /\ Applied(block.index) = {"row", "ledger", "transactions", "address"}
           /\ processedIndex = block.index
           /\ result' = "ok"
           /\ context'.prevBlock = findById(db, block.index)
           /\ context'.currentHeight = block.index
      /\ (pc = "fanout" /\ error)
        => \/ pc' = "fanout"
           \/ pc' = "idle" /\ result' = "error" /\ context' = context
    ]_vars

C8_Witness ==
  /\ pc = "saved"
  /\ refetched
  /\ blockModel.hash # block.hash

\* What is left of the call in flight: the height of the context of the
\* invocation in flight first, then the awaits left in that invocation.
AwaitsLeft ==
  CASE pc = "idle" -> 0
    [] pc = "saved" -> 1
    [] pc = "processed" -> 2
    [] pc = "fanout" -> 3 + Cardinality(pending)
    [] pc = "reverted" -> 10
    [] pc = "unprocess" -> 11
    [] pc = "delete" -> 12
    [] pc = "subreverts" -> 13 + Cardinality(pending)
    [] pc = "save" -> 20

Remaining ==
  IF pc = "idle" THEN 0
  ELSE 32 * (cur.currentHeight + 1) + AwaitsLeft
       + (IF fetched = "pending" THEN 1 ELSE 0)

\* C9: termination of fork resolution.  A save call on a context of height h
\* completes at most h + 1 reverts; every save invocation made after a revert
\* runs on a context lower than the one of the invocation before it; and a
\* call that has started always has a step to take, each of which leaves
\* less of the call to do, so that every call ends.
C9_Terminates ==
  /\ [] ( /\ entryHeights # << >> => reverts <= entryHeights[1] + 1
          /\ \A i \in 2 .. Len(entryHeights) :
               entryHeights[i] < entryHeights[i - 1]
          /\ (pc = "save" /\ entryHeights # << >>)
               => cur.currentHeight < entryHeights[Len(entryHeights)]
          /\ Remaining >= 0
          /\ pc # "idle" => ENABLED (Step \/ Failure) )
  /\ [][ pc # "idle" => Remaining' < Remaining ]_vars

C9_Witness ==
  /\ pc = "save"
  /\ reverts = 1
  /\ after = "return"
  /\ entryHeights # << >>
  /\ entryHeights[1] = MaxIndex

\* C10: hash chain.  Between calls, every committed row at an index n whose
\* row at n - 1 is committed too carries that row's hash as its
\* previous_block_hash, which is also the previousBlockHash of its block.
C10_HashChain ==
  pc = "idle" =>
    \A r \in db :
      findById(db, r.id - 1) # Undefined
        => /\ r.previous_block_hash = findById(db, r.id - 1).hash
           /\ r.previous_block_hash = BlockOfRow(r).previousBlockHash

\* C6: revert, then save again.  After revert of the row of the committed
\* tip block b and save of b on the context revert returned, the row at
\* b.index is the row that was there before, hash and aggregated fee the
\* same, and the context height is b.index.
C6_RevertThenSave ==
  ( /\ pc = "idle"
    /\ scenario.phase = "second"
    /\ scenario.op = "revert"
    /\ result = "ok"
    /\ scenario.block.index = scenario.before.context.currentHeight
    /\ findById(scenario.before.db, scenario.block.index)
         = scenario.before.context.prevBlock )
  => /\ findById(db, scenario.block.index) # Undefined
     /\ findById(db, scenario.block.index).hash = scenario.block.hash
     /\ findById(db, scenario.block.index).aggregated_system_fee
          = scenario.before.context.prevBlock.aggregated_system_fee
     /\ context.currentHeight = scenario.block.index

\* C11: tip replacement.  When save(context, b) has returned, where b has the
\* index of the context height h, another hash than the row committed at h,
\* and links to the row committed at h - 1 (or h = 0), the context height is
\* h and the row committed at h carries b.hash.
C11_TipReplaced ==
  ( /\ pc = "idle"
    /\ scenario.phase = "first"
    /\ scenario.op = "save"
    /\ result = "ok"
    /\ IsLocalChain(scenario.before.db, scenario.before.context.currentHeight)
    /\ scenario.block.index = scenario.before.context.currentHeight
    /\ scenario.block.hash
         # findById(scenario.before.db, scenario.block.index).hash
    /\ \/ scenario.block.index = 0
       \/ scenario.block.previousBlockHash
            = findById(scenario.before.db, scenario.block.index - 1).hash )
  => /\ context.currentHeight = scenario.block.index
     /\ findById(db, scenario.block.index).hash = scenario.block.hash

\* The five operations of the fan-out of the save in flight are done.
FanOutDone ==
  /\ pending = {}
  /\ ~ error
  /\ blockModel = findById(db, block.index)
  /\ blockModel # Undefined
  /\ Applied(block.index) = {"row", "ledger", "transactions", "address"}
  /\ prevBlockModel # Undefined => prevBlockModel.id \in prevPointers

\* C12: save ordering.  In a save append the cursor does not move while the
\* fan-out runs, and not at all once an operation of it has failed; it is
\* set to block.index by the step that follows the completed fan-out; and
\* the caller's context changes only after that, to the new height and row.
C12_SaveOrdering ==
  [][ /\ pc = "fanout" =>
           /\ processedIndex' = processedIndex
           /\ context' = context
           /\ error => pc' \in {"fanout", "idle"}
           /\ pc' = "processed" => FanOutDone
      /\ pc = "processed" =>
           /\ FanOutDone
           /\ context' = context
           /\ pc' = "saved" => processedIndex' = block.index
           /\ pc' # "saved" => processedIndex' = processedIndex
      /\ pc = "saved" =>
           /\ processedIndex = block.index
           /\ processedIndex' = processedIndex
           /\ context' = savedContext(cur, blockModel)
           /\ context'.currentHeight = block.index
           /\ context'.prevBlock = findById(db, block.index)
    ]_vars

C12_Witness ==
  /\ pc = "saved"
  /\ processedIndex = block.index
  /\ context.currentHeight = block.index - 1
  /\ block.index > 0
  /\ ~ refetched

\* The four sub-reverts of the revert in flight are done.
SubRevertsDone ==
  /\ pending = {}
  /\ ~ error
  /\ blockModel.id \notin transactions
  /\ blockModel.id \notin addresses
  /\ ledger[blockModel.id] = NoEntry
  /\ prevBlockModel # Undefined => prevBlockModel.id \notin prevPointers

\* C13: revert ordering.  In a revert the row is not deleted and the cursor
\* does not move while the sub-reverts run, nor once one of them has failed;
\* the row is deleted by the step that follows the four completed
\* sub-reverts, and the cursor is rolled back by the step after that, when
\* the row is gone.
C13_RevertOrdering ==
  [][ /\ pc = "subreverts" =>
           /\ db' = db
           /\ processedIndex' = processedIndex
           /\ error => pc' \in {"subreverts", "idle"}
           /\ pc' = "delete" => SubRevertsDone
      /\ pc = "delete" =>
           /\ SubRevertsDone
           /\ processedIndex' = processedIndex
           /\ pc' = "unprocess" => db' = { r \in db : r.id # blockModel.id }
           /\ pc' # "unprocess" => db' = db
      /\ pc = "unprocess" =>
           /\ findById(db, blockModel.id) = Undefined
           /\ db' = db
           /\ pc' = "reverted" => processedIndex' = blockModel.id - 1
           /\ pc' # "reverted" => processedIndex' = processedIndex
    ]_vars

C13_Witness ==
  /\ pc = "reverted"
  /\ blockModel.id > 0
  /\ findById(db, blockModel.id) = Undefined
  /\ findById(db, blockModel.id - 1) # Undefined
  /\ processedIndex = blockModel.id - 1

\* C18: cursor safety.  In every state, between the steps of a call in
\* flight too, the processed-index cursor names no index whose row is absent
\* or whose append is only partly applied.
C18_CursorSafe ==
  processedIndex >= 0 =>
    /\ findById(db, processedIndex) # Undefined
    /\ Applied(processedIndex) = {"row", "ledger", "transactions", "address"}

\* C19: the committed row is the saved block.  When a save that took the
\* append path for block b returns, the row it places in prevBlock is the
\* row committed at b.index and carries b.hash, also when the insert met an
\* existing row and read it back.
C19_RowMatchesBlock ==
  [][ pc = "saved" =>
        /\ context'.prevBlock = findById(db, block.index)
        /\ context'.prevBlock.hash = block.hash
    ]_vars

\* C20: out-of-order input.  A save call whose block has neither the index
\* of the context height nor the one after it returns the context it was
\* given, without an error; it writes nothing, starts no operation of a
\* sub-updater, no revert and no client.getBlock.
C20_OutOfOrderNoop ==
  [][ ( /\ pc = "save"
        /\ entryHeights = << >>
        /\ reverts = 0
        /\ block.index # context.currentHeight
        /\ block.index # context.currentHeight + 1 )
      => /\ pc' = "idle"
         /\ result' = "ok"
         /\ context' = context
         /\ faults' = faults
         /\ UNCHANGED stores
    ]_vars

C20_Witness ==
  /\ pc = "save"
  /\ entryHeights = << >>
  /\ reverts = 0
  /\ cur = context
  /\ context.currentHeight = 0
  /\ block.index = MaxIndex

\* The contracts a batch shows to extraction, in the order of the batch, each
\* with the position of its transaction.
RECURSIVE ObservedContracts(_, _)
ObservedContracts(txs, k) ==
  IF k > Len(txs) THEN << >>
  ELSE LET created ==
             IF txs[k].type = "InvocationTransaction"
               THEN txs[k].invocationData.contracts
             ELSE IF txs[k].type = "PublishTransaction"
               THEN << txs[k].contract >>
             ELSE << >>
       IN [ i \in DOMAIN created |-> [ at |-> k, contract |-> created[i] ] ]
          \o ObservedContracts(txs, k + 1)

\* The script was assembled with all six method names.
FullScript == ScriptOf(DOMAIN AttributeNames)

KnowsAllNames(contract) == contract.script = FullScript

\* A token contract, as the standard and the blacklist define it.
IsToken(contract) ==
  /\ contract.hash \notin BlacklistNEP5Hashes
  /\ KnowsAllNames(contract)

\* C14: token classification.  When extraction has returned, there is one
\* contract row for every contract of the batch, in order; its type is the
\* token type exactly when the contract is not blacklisted and its script
\* holds all six method names; the token asset rows are those of the token
\* contracts, one each, and each token contract has a handle in the cache
\* under its id; a contract that is not a token adds no row and no handle.
C14_Classification ==
  (extraction.called /\ extraction.result.ok) =>
    LET seen == ObservedContracts(extraction.transactions, 1)
        tokens == SelectSeq(seen, LAMBDA o : IsToken(o.contract))
        rows == extraction.result.contracts
        tokenRows ==
          SelectSeq(extraction.result.assets, LAMBDA a : a.type = "NEP5")
        cache == extraction.result.context.nep5Contracts
    IN /\ Len(rows) = Len(seen)
       /\ \A i \in DOMAIN seen :
            /\ rows[i].id = seen[i].contract.hash
            /\ rows[i].type = "NEP5" <=> IsToken(seen[i].contract)
            /\ rows[i].type \in {"NEP5", "Unknown"}
       /\ Len(tokenRows) = Len(tokens)
       /\ \A i \in DOMAIN tokens :
            /\ tokenRows[i].id = tokens[i].contract.hash
            /\ cache[tokens[i].contract.hash] # NoHandle
            /\ cache[tokens[i].contract.hash].hash
                 = "0x" \o tokens[i].contract.hash
       /\ \A id \in ContractHashes :
            (\A i \in DOMAIN tokens : tokens[i].contract.hash # id)
              => cache[id] = extraction.context.nep5Contracts[id]

C14_Witness ==
  /\ extraction.called
  /\ extraction.result.ok
  /\ LET seen == ObservedContracts(extraction.transactions, 1)
     IN /\ \E i \in DOMAIN seen : IsToken(seen[i].contract)
        /\ \E i \in DOMAIN seen :
             /\ ~ KnowsAllNames(seen[i].contract)
             /\ seen[i].contract.hash \notin BlacklistNEP5Hashes
             /\ extraction.result.context.nep5Contracts[seen[i].contract.hash]
                  = NoHandle

\* C15: a failing totalSupply query.  For a batch that holds a token
\* contract: when only the totalSupply query fails, extraction returns, every
\* token asset row has the amount "0" and every token contract has its handle
\* in the cache; when the name, the symbol or the decimals query fails,
\* extraction rejects.
C15_TotalSupplyDefault ==
  ( /\ extraction.called
    /\ \E i \in DOMAIN ObservedContracts(extraction.transactions, 1) :
         IsToken(ObservedContracts(extraction.transactions, 1)[i].contract) )
  => LET seen == ObservedContracts(extraction.transactions, 1)
     IN /\ extraction.failing = {"totalSupply"} =>
             /\ extraction.result.ok
             /\ \A i \in DOMAIN extraction.result.assets :
                  extraction.result.assets[i].type = "NEP5"
                    => extraction.result.assets[i].amount = << 0 >>
             /\ \A i \in DOMAIN seen :
                  IsToken(seen[i].contract) =>
                    extraction.result.context.nep5Contracts[seen[i].contract.hash]
                      # NoHandle
        /\ extraction.failing = {} =>
             /\ extraction.result.ok
             /\ \A i \in DOMAIN extraction.result.assets :
                  extraction.result.assets[i].type = "NEP5"
                    => extraction.result.assets[i].amount # << 0 >>
        /\ extraction.failing \cap {"name", "symbol", "decimals"} # {}
             => ~ extraction.result.ok

C15_Witness ==
  /\ extraction.called
  /\ extraction.failing = {"totalSupply"}
  /\ extraction.result.ok
  /\ \E i \in DOMAIN extraction.result.assets :
       /\ extraction.result.assets[i].type = "NEP5"
       /\ extraction.result.assets[i].amount = << 0 >>

\* The position in the batch of the transaction a row was made for.
ProducedAt(row, txs) ==
  CHOOSE k \in DOMAIN txs : txs[k].txid = row.transaction_hash

\* The rows are in the order of the transactions they were made for.
InInputOrder(rows, txs) ==
  \A p, q \in DOMAIN rows :
    p < q => ProducedAt(rows[p], txs) <= ProducedAt(rows[q], txs)

\* C16: batch order, as stated.  The asset rows and the contract rows that
\* extraction returns are each in the order of the transactions of the batch
\* that produced them.
C16_InputOrder ==
  (extraction.called /\ extraction.result.ok) =>
    /\ InInputOrder(extraction.result.assets, extraction.transactions)
    /\ InInputOrder(extraction.result.contracts, extraction.transactions)

\* C16: batch order, as the code has it.  The asset rows are the rows of the
\* registered assets, in the order of their transactions, followed by the
\* rows of the token contracts, in the order of their transactions; the
\* contract rows are in the order of their transactions, and so are the new
\* handles merged into the cache: of two for one id the later one stays.
C16_AssetsThenTokens ==
  (extraction.called /\ extraction.result.ok) =>
    LET rows == extraction.result.assets
        registered == SelectSeq(rows, LAMBDA a : a.type # "NEP5")
        tokens == SelectSeq(rows, LAMBDA a : a.type = "NEP5")
    IN /\ rows = registered \o tokens
       /\ InInputOrder(registered, extraction.transactions)
       /\ InInputOrder(tokens, extraction.transactions)
       /\ InInputOrder(extraction.result.contracts, extraction.transactions)
       /\ \A id \in ContractHashes :
            LET made ==
                  SelectSeq(ObservedContracts(extraction.transactions, 1),
                            LAMBDA o : IsToken(o.contract) /\ o.contract.hash = id)
            IN made # << >> =>
                 extraction.result.context.nep5Contracts[id].madeFor
                   = extraction.transactions[made[Len(made)].at].txid

C16_Witness ==
  /\ extraction.called
  /\ extraction.result.ok
  /\ Len(extraction.result.assets) > 1
  /\ extraction.result.assets[1].type # "NEP5"
  /\ extraction.result.assets[Len(extraction.result.assets)].type = "NEP5"
  /\ extraction.transactions[1].type = "PublishTransaction"
  /\ extraction.transactions[Len(extraction.transactions)].type
       = "RegisterTransaction"

\* The ids that have a handle in a cache.
Keys(cache) == { id \in ContractHashes : cache[id] # NoHandle }

\* The ids of the token contracts of a batch.
TokenIds(txs) ==
  { ObservedContracts(txs, 1)[i].contract.hash :
      i \in { j \in DOMAIN ObservedContracts(txs, 1) :
                IsToken(ObservedContracts(txs, 1)[j].contract) } }

====
